---- MODULE Spec2Model ----
(***************************************************************************)
(* Access-control core of the budget-tracker backend: the user store       *)
(* (UserRepository), the directory service (UserService), the token        *)
(* service (AuthService) and the admin bulk endpoints.                     *)
(*                                                                         *)
(* Optional[T] values are sequences: <<>> is None and <<v>> is v.          *)
(* Strings that are searched or compared case-sensitively (emails, names,  *)
(* search terms) are sequences of one-character strings.                   *)
(* Datetimes are clock ticks; a JWT NumericDate is a whole second.         *)
(***************************************************************************)
EXTENDS Integers, Sequences, FiniteSets, Bags, TLC

VARIABLES users, now, tokens, requests, clients, last

vars == <<users, now, tokens, requests, clients, last>>

----------------------------------------------------------------------------
(* Bounds of the model *)

NumDistricts == 2
NumFacilities == 2
MaxPage == 2
MaxSize == 2
MaxClock == 1
MaxBulk == 2
MaxTokens == 1
TicksPerSecond == 2
MaxInflight == 2
MaxUsers == 3

----------------------------------------------------------------------------
(* Values *)

None == <<>>
Some(v) == <<v>>

ADMIN == "admin"
MANAGER == "manager"
ACCOUNTANT == "accountant"
UserRole == {ACCOUNTANT, ADMIN, MANAGER}

Districts == 1..NumDistricts
Facilities == 1..NumFacilities
Provinces == {1}

Min(a, b) == IF a < b THEN a ELSE b

\* Python's str.lower() on one character
LowerChar(c) == IF c = "A" THEN "a" ELSE IF c = "B" THEN "b" ELSE c

Lower(s) == [i \in 1..Len(s) |-> LowerChar(s[i])]

\* needle occurs in hay as a contiguous substring
Contains(hay, needle) ==
    \E i \in 0..(Len(hay) - Len(needle)) :
        \A j \in 1..Len(needle) : hay[i + j] = needle[j]

\* SQL  column ILIKE '%term%'  (term without wildcard characters)
ILike(column, term) == Contains(Lower(column), Lower(term))

----------------------------------------------------------------------------
(* UserService._can_modify_user *)

\* variant: the Manager branch checks the district only
_can_modify_user_district_only(current_user, target_user) ==
    IF current_user.role = ADMIN THEN TRUE
    ELSE IF current_user.role = MANAGER THEN
        current_user.district_id = target_user.district_id
    ELSE IF current_user.role = ACCOUNTANT THEN
        current_user.id = target_user.id
    ELSE FALSE

_can_modify_user(current_user, target_user) ==
    IF current_user.role = ADMIN THEN TRUE
    ELSE IF current_user.role = MANAGER THEN
        /\ current_user.district_id = target_user.district_id
        /\ target_user.role = ACCOUNTANT
    ELSE IF current_user.role = ACCOUNTANT THEN
        current_user.id = target_user.id
    ELSE FALSE

----------------------------------------------------------------------------
(* UserRepository.get_all *)

\* the WHERE conditions collected by get_all
MatchesFilters(u, f) ==
    /\ (f.facility_id # None => u.facility_id = f.facility_id[1])
    /\ (f.district_id # None => u.district_id = f.district_id[1])
    /\ (f.province_id # None => u.province_id = f.province_id[1])
    /\ (f.role # None => u.role = f.role[1])
    /\ (f.is_active # None => u.is_active = f.is_active[1])
    /\ ((f.search # None /\ f.search[1] # <<>>) =>
            \/ ILike(u.full_name, f.search[1])
            \/ ILike(u.email, f.search[1]))

MatchingIds(store, f) == {i \in DOMAIN store : MatchesFilters(store[i], f)}

\* every ordering of the ids S by created_at descending (rows with equal
\* created_at come in an order the database chooses)
RECURSIVE OrderedByCreatedDesc(_, _)
OrderedByCreatedDesc(store, S) ==
    IF S = {} THEN {<<>>}
    ELSE LET newest == {i \in S : \A j \in S : store[j].created_at <= store[i].created_at}
         IN UNION {{<<i>> \o rest : rest \in OrderedByCreatedDesc(store, S \ {i})} : i \in newest}

\* OFFSET skip LIMIT limit
PageOf(order, skip, limit) ==
    IF skip >= Len(order) THEN <<>>
    ELSE SubSeq(order, skip + 1, Min(skip + limit, Len(order)))

\* the possible results (users, total) of get_all
get_all(store, skip, limit, f) ==
    {[users |-> PageOf(order, skip, limit), total |-> Cardinality(MatchingIds(store, f))] :
        order \in OrderedByCreatedDesc(store, MatchingIds(store, f))}

----------------------------------------------------------------------------
(* UserService.get_users_list *)

\* variant: a Manager's requested district is kept when one is given
EffectiveFilters_manager_keeps_request(current_user, f) ==
    IF current_user.role # ADMIN THEN
        IF current_user.role = MANAGER THEN
            IF f.district_id = None THEN
                [f EXCEPT !.district_id = Some(current_user.district_id)]
            ELSE f
        ELSE
            [f EXCEPT !.facility_id = Some(current_user.facility_id)]
    ELSE f

\* variant: an Accountant's requested facility is kept when one is given
EffectiveFilters_accountant_keeps_request(current_user, f) ==
    IF current_user.role # ADMIN THEN
        IF current_user.role = MANAGER THEN
            [f EXCEPT !.district_id = Some(current_user.district_id)]
        ELSE
            IF f.facility_id = None THEN
                [f EXCEPT !.facility_id = Some(current_user.facility_id)]
            ELSE f
    ELSE f

\* variant: the Admin exemption is missing, an Admin is narrowed to a facility
EffectiveFilters_admin_narrowed(current_user, f) ==
    IF current_user.role = MANAGER THEN
        [f EXCEPT !.district_id = Some(current_user.district_id)]
    ELSE
        [f EXCEPT !.facility_id = Some(current_user.facility_id)]

\* the authorization filters applied before the query (lines 112-128)
EffectiveFilters(current_user, f) ==
    IF current_user.role # ADMIN THEN
        IF current_user.role = MANAGER THEN
            IF f.district_id = None THEN
                [f EXCEPT !.district_id = Some(current_user.district_id)]
            ELSE IF f.district_id # Some(current_user.district_id) THEN
                [f EXCEPT !.district_id = Some(current_user.district_id)]
            ELSE f
        ELSE
            IF f.facility_id = None THEN
                [f EXCEPT !.facility_id = Some(current_user.facility_id)]
            ELSE IF f.facility_id # Some(current_user.facility_id) THEN
                [f EXCEPT !.facility_id = Some(current_user.facility_id)]
            ELSE f
    ELSE f

CeilDiv(a, b) == (a + b - 1) \div b

\* variant: an empty result has zero pages
get_users_list_zero_pages(store, page, size, f, current_user) ==
    LET eff == EffectiveFilters(current_user, f)
        skip == (page - 1) * size
    IN {[op |-> "get_users_list", actor |-> current_user.id, outcome |-> "ok",
         requested |-> f, effective |-> eff,
         users |-> r.users, total |-> r.total, page |-> page, size |-> size,
         total_pages |-> CeilDiv(r.total, size)] :
            r \in get_all(store, skip, size, eff)}

\* the possible responses of get_users_list
get_users_list(store, page, size, f, current_user) ==
    LET eff == EffectiveFilters(current_user, f)
        skip == (page - 1) * size
    IN {[op |-> "get_users_list", actor |-> current_user.id, outcome |-> "ok",
         requested |-> f, effective |-> eff,
         users |-> r.users, total |-> r.total, page |-> page, size |-> size,
         total_pages |-> IF r.total > 0 THEN CeilDiv(r.total, size) ELSE 1] :
            r \in get_all(store, skip, size, eff)}

----------------------------------------------------------------------------
(* UserRepository: single-row reads and writes.  t is datetime.utcnow().   *)

get_by_id(store, user_id) ==
    IF user_id \in DOMAIN store THEN Some(store[user_id]) ELSE None

\* the first row with this email (emails are unique, so at most one)
get_by_email(store, email) ==
    IF \E i \in DOMAIN store : store[i].email = email
    THEN Some(store[CHOOSE i \in DOMAIN store : store[i].email = email])
    ELSE None

get_active_by_email(store, email) ==
    IF \E i \in DOMAIN store : store[i].email = email /\ store[i].is_active
    THEN Some(store[CHOOSE i \in DOMAIN store : store[i].email = email /\ store[i].is_active])
    ELSE None

exists_by_email(store, email, exclude_id) ==
    \E i \in DOMAIN store :
        /\ store[i].email = email
        /\ (exclude_id # None => i # exclude_id[1])

\* a UserUpdate in which no field is set
NoUpdate == [full_name |-> None, email |-> None, province_id |-> None,
             district_id |-> None, facility_id |-> None, role |-> None,
             is_active |-> None]

SetField(old, opt) == IF opt = None THEN old ELSE opt[1]

\* UserRepository.update: setattr for every set field, then the timestamp
repo_update(store, t, user_id, user_data) ==
    IF user_id \notin DOMAIN store THEN store
    ELSE [store EXCEPT ![user_id] =
            [@ EXCEPT !.full_name = SetField(@, user_data.full_name),
                      !.email = SetField(@, user_data.email),
                      !.province_id = SetField(@, user_data.province_id),
                      !.district_id = SetField(@, user_data.district_id),
                      !.facility_id = SetField(@, user_data.facility_id),
                      !.role = SetField(@, user_data.role),
                      !.is_active = SetField(@, user_data.is_active),
                      !.updated_at = t]]

\* variant: a deleted row also loses its email
repo_delete_anonymises(store, t, user_id) ==
    IF user_id \notin DOMAIN store THEN store
    ELSE [store EXCEPT ![user_id] = [@ EXCEPT !.is_active = FALSE, !.email = <<>>,
                                              !.updated_at = t]]

\* UserRepository.delete: soft delete
repo_delete(store, t, user_id) ==
    IF user_id \notin DOMAIN store THEN store
    ELSE [store EXCEPT ![user_id] = [@ EXCEPT !.is_active = FALSE, !.updated_at = t]]

\* UserRepository.update_password
update_password(store, t, user_id, password_hash) ==
    IF user_id \notin DOMAIN store THEN store
    ELSE [store EXCEPT ![user_id] = [@ EXCEPT !.password_hash = password_hash, !.updated_at = t]]

----------------------------------------------------------------------------
(* UserService: the mutating calls.  Each returns the outcome of the call  *)
(* ("ok", "not_found" for a None/False return, or the exception raised)    *)
(* and the store it leaves.                                                *)

Result(outcome, store) == [outcome |-> outcome, store |-> store]

\* variant: the email check comes before the permission check
update_user_email_check_first(store, t, user_id, user_data, current_user) ==
    IF get_by_id(store, user_id) = None THEN Result("not_found", store)
    ELSE IF user_data.email # None /\ exists_by_email(store, user_data.email[1], Some(user_id))
        THEN Result("ValueError", store)
    ELSE IF ~_can_modify_user(current_user, store[user_id]) THEN Result("PermissionError", store)
    ELSE Result("ok", repo_update(store, t, user_id, user_data))

update_user(store, t, user_id, user_data, current_user) ==
    IF get_by_id(store, user_id) = None THEN Result("not_found", store)
    ELSE IF ~_can_modify_user(current_user, store[user_id]) THEN Result("PermissionError", store)
    ELSE IF user_data.email # None /\ exists_by_email(store, user_data.email[1], Some(user_id))
        THEN Result("ValueError", store)
    ELSE Result("ok", repo_update(store, t, user_id, user_data))

\* variant: the permission check comes before the self check
delete_user_permission_first(store, t, user_id, current_user) ==
    IF get_by_id(store, user_id) = None THEN Result("not_found", store)
    ELSE IF ~_can_modify_user(current_user, store[user_id]) THEN Result("PermissionError", store)
    ELSE IF store[user_id].id = current_user.id THEN Result("ValueError", store)
    ELSE Result("ok", repo_delete(store, t, user_id))

delete_user(store, t, user_id, current_user) ==
    IF get_by_id(store, user_id) = None THEN Result("not_found", store)
    ELSE IF store[user_id].id = current_user.id THEN Result("ValueError", store)
    ELSE IF ~_can_modify_user(current_user, store[user_id]) THEN Result("PermissionError", store)
    ELSE Result("ok", repo_delete(store, t, user_id))

activate_user(store, t, user_id, current_user) ==
    IF get_by_id(store, user_id) = None THEN Result("not_found", store)
    ELSE IF ~_can_modify_user(current_user, store[user_id]) THEN Result("PermissionError", store)
    ELSE Result("ok", repo_update(store, t, user_id, [NoUpdate EXCEPT !.is_active = Some(TRUE)]))

\* variant: deactivating an already inactive user is refused
deactivate_user_refuses_inactive(store, t, user_id, current_user) ==
    IF get_by_id(store, user_id) = None THEN Result("not_found", store)
    ELSE IF store[user_id].id = current_user.id THEN Result("ValueError", store)
    ELSE IF ~_can_modify_user(current_user, store[user_id]) THEN Result("PermissionError", store)
    ELSE IF ~store[user_id].is_active THEN Result("ValueError", store)
    ELSE Result("ok", repo_update(store, t, user_id, [NoUpdate EXCEPT !.is_active = Some(FALSE)]))

deactivate_user(store, t, user_id, current_user) ==
    IF get_by_id(store, user_id) = None THEN Result("not_found", store)
    ELSE IF store[user_id].id = current_user.id THEN Result("ValueError", store)
    ELSE IF ~_can_modify_user(current_user, store[user_id]) THEN Result("PermissionError", store)
    ELSE Result("ok", repo_update(store, t, user_id, [NoUpdate EXCEPT !.is_active = Some(FALSE)]))

----------------------------------------------------------------------------
(* Password hashing (passlib bcrypt): a hash carries its salt *)

get_password_hash(password, salt) == <<"bcrypt", salt, password>>

verify_password(plain_password, hashed_password) == hashed_password[3] = plain_password

----------------------------------------------------------------------------
(* AuthService: tokens.  A JWT is its claims and the key that signed it.   *)
(* t is datetime.utcnow() in ticks.                                        *)

ACCESS_TOKEN_EXPIRE_MINUTES == 30
RESET_TOKEN_EXPIRE_HOURS == 1

secret_key == "your-secret-key-change-in-production"
another_key == "another-key"

\* timedelta(minutes=m), timedelta(hours=h) in ticks
Minutes(m) == m * 60 * TicksPerSecond
Hours(h) == h * 3600 * TicksPerSecond

\* jose converts a datetime claim to a NumericDate: timegm(utctimetuple()),
\* the whole seconds of the datetime
NumericDate(t) == t \div TicksPerSecond

\* jwt.encode(claims, key): the exp datetime is stored as a NumericDate
jwt_encode(claims, key) ==
    [claims |-> [claims EXCEPT !.exp = IF @ = None THEN None ELSE Some(NumericDate(@[1]))],
     key |-> key]

\* variant: a token is refused from the second of its exp on
jwt_decode_expires_early(token, key, t) ==
    IF token.key # key THEN None
    ELSE IF token.claims.exp # None /\ token.claims.exp[1] <= NumericDate(t) THEN None
    ELSE Some(token.claims)

\* jwt.decode(token, key): the claims, or None for a JWTError (bad signature,
\* or exp earlier than the current whole second)
jwt_decode(token, key, t) ==
    IF token.key # key THEN None
    ELSE IF token.claims.exp # None /\ token.claims.exp[1] < NumericDate(t) THEN None
    ELSE Some(token.claims)

NoClaims == [sub |-> None, user_id |-> None, exp |-> None, type |-> None]

create_access_token(data, expires_delta, t) ==
    LET expire == IF expires_delta # None THEN t + expires_delta[1]
                  ELSE t + Minutes(ACCESS_TOKEN_EXPIRE_MINUTES)
    IN jwt_encode([data EXCEPT !.exp = Some(expire)], secret_key)

\* the TokenData (email, user_id), or None
verify_token(token, t) ==
    LET payload == jwt_decode(token, secret_key, t)
    IN IF payload = None THEN None
       ELSE IF payload[1].sub = None \/ payload[1].user_id = None THEN None
       ELSE Some([email |-> payload[1].sub[1], user_id |-> payload[1].user_id[1]])

authenticate_user(store, email, password) ==
    LET user == get_active_by_email(store, email)
    IN IF user = None THEN None
       ELSE IF ~verify_password(password, user[1].password_hash) THEN None
       ELSE user

\* the LoginResponse, or None
login(store, t, email, password) ==
    LET user == authenticate_user(store, email, password)
    IN IF user = None THEN None
       ELSE Some([access_token |->
                     create_access_token([NoClaims EXCEPT !.sub = Some(user[1].email),
                                                          !.user_id = Some(user[1].id)],
                                         Some(Minutes(ACCESS_TOKEN_EXPIRE_MINUTES)), t),
                  expires_in |-> ACCESS_TOKEN_EXPIRE_MINUTES * 60,
                  user |-> user[1]])

\* the active user with the token's email, or None
get_current_user(store, t, token) ==
    LET token_data == verify_token(token, t)
    IN IF token_data = None THEN None
       ELSE get_active_by_email(store, token_data[1].email)

create_password_reset_token(email, t) ==
    jwt_encode([NoClaims EXCEPT !.sub = Some(email),
                                !.exp = Some(t + Hours(RESET_TOKEN_EXPIRE_HOURS)),
                                !.type = Some("password_reset")], secret_key)

\* variant: the type claim is not looked at
verify_password_reset_token_any_type(token, t) ==
    LET payload == jwt_decode(token, secret_key, t)
    IN IF payload = None THEN None
       ELSE IF payload[1].sub = None THEN None
       ELSE payload[1].sub

\* the email, or None
verify_password_reset_token(token, t) ==
    LET payload == jwt_decode(token, secret_key, t)
    IN IF payload = None THEN None
       ELSE IF payload[1].sub = None \/ payload[1].type # Some("password_reset") THEN None
       ELSE payload[1].sub

reset_password(store, t, token, new_password, salt) ==
    LET email == verify_password_reset_token(token, t)
        user == get_by_email(store, email[1])
    IN IF email = None THEN Result("fail", store)
       ELSE IF user = None THEN Result("fail", store)
       ELSE Result("ok", update_password(store, t, user[1].id, get_password_hash(new_password, salt)))

\* AuthService.change_password: True ("ok") or False
change_password(store, t, user_id, current_password, new_password, salt) ==
    IF get_by_id(store, user_id) = None THEN Result("False", store)
    ELSE IF ~verify_password(current_password, store[user_id].password_hash)
        THEN Result("False", store)
    ELSE Result("ok", update_password(store, t, user_id, get_password_hash(new_password, salt)))

\* variant: whoever may modify the target may change its password
change_user_password_by_can_modify(store, t, user_id, current_password, new_password, current_user, salt) ==
    IF get_by_id(store, user_id) # None /\ ~_can_modify_user(current_user, store[user_id])
    THEN Result("PermissionError", store)
    ELSE change_password(store, t, user_id, current_password, new_password, salt)

\* UserService.change_user_password
change_user_password(store, t, user_id, current_password, new_password, current_user, salt) ==
    IF current_user.id # user_id /\ current_user.role # ADMIN
    THEN Result("PermissionError", store)
    ELSE change_password(store, t, user_id, current_password, new_password, salt)

----------------------------------------------------------------------------
(* A store that holds one user of every role, district, facility and       *)
(* active status, with pairwise distinct emails and creation times.        *)

RoleSeq == <<ADMIN, MANAGER, ACCOUNTANT>>
CharSeq == <<"a", "b", "A">>

NumScopeUsers == 3 * NumDistricts * NumFacilities * 2

ScopeEmail(k) == <<CharSeq[(k % 3) + 1], CharSeq[((k \div 3) % 3) + 1],
                   CharSeq[((k \div 9) % 3) + 1], CharSeq[((k \div 27) % 3) + 1]>>

ScopeUser(k) ==
    LET n == k - 1
    IN [id |-> k,
        email |-> ScopeEmail(n),
        full_name |-> <<"B">>,
        password_hash |-> get_password_hash("pw1", 1),
        province_id |-> 1,
        district_id |-> ((n \div (2 * NumFacilities)) % NumDistricts) + 1,
        facility_id |-> ((n \div 2) % NumFacilities) + 1,
        role |-> RoleSeq[(n \div (2 * NumFacilities * NumDistricts)) + 1],
        is_active |-> (n % 2 = 0),
        created_at |-> k,
        updated_at |-> k]

\* RateLimiter() as constructed for the module-level rate_limiter
default_calls == 100
default_period == 60
burst_calls == 10
burst_period == 1

\* a URL path is the sequence of its segments: '/auth/login' is <<"auth", "login">>
endpoint_limits ==
    (<<"auth", "login">> :> [calls |-> 5, period |-> 60, burst |-> 3])
    @@ (<<"auth", "forgot-password">> :> [calls |-> 3, period |-> 300, burst |-> 1])
    @@ (<<"auth", "reset-password">> :> [calls |-> 3, period |-> 300, burst |-> 1])
    @@ (<<"users", "">> :> [calls |-> 50, period |-> 60, burst |-> 10])

\* an address is its four octets; a network is an address and a prefix
\* length (all prefixes of the whitelist are at most 16 bits long)
whitelist ==
    {[address |-> <<127, 0, 0, 0>>, prefix |-> 8],
     [address |-> <<10, 0, 0, 0>>, prefix |-> 8],
     [address |-> <<172, 16, 0, 0>>, prefix |-> 12],
     [address |-> <<192, 168, 0, 0>>, prefix |-> 16]}

\* client_ip in network: the leading prefix bits agree
in_network(ip, network) ==
    LET shift == 2 ^ (16 - network.prefix)
    IN ((ip[1] * 256 + ip[2]) \div shift)
           = ((network.address[1] * 256 + network.address[2]) \div shift)

_is_whitelisted(ip) == \E network \in whitelist : in_network(ip, network)

\* the calls younger than period seconds at current_time
_clean_old_calls(calls, period, current_time) ==
    SelectSeq(calls, LAMBDA call_time : current_time - call_time < period * TicksPerSecond)

\* the limits of an endpoint: those of endpoint_limits if the path is a key
\* of it, the defaults otherwise
_get_limits(endpoint) ==
    IF endpoint \in DOMAIN endpoint_limits
    THEN endpoint_limits[endpoint]
    ELSE [calls |-> default_calls, period |-> default_period, burst |-> burst_calls]

\* min(calls)
oldest_call(calls) ==
    CHOOSE c \in {calls[i] : i \in 1..Len(calls)} :
        \A i \in 1..Len(calls) : c <= calls[i]

\* the addresses that send requests: a public one and a whitelisted one
ClientIps == {<<203, 0, 113, 9>>, <<10, 0, 0, 5>>}

\* self.clients, a defaultdict: every client starts with the default entry
NoClients ==
    [ip \in ClientIps |-> [calls |-> <<>>, burst_calls |-> <<>>, blocked_until |-> None]]

\* RateLimiter.is_allowed at current_time: the limiter's state after the
\* call, whether the request is admitted, and the error code if it is not
is_allowed(store, current_time, client_ip, endpoint) ==
    LET client_data == store[client_ip]
        limits == _get_limits(endpoint)
        calls == _clean_old_calls(client_data.calls, limits.period, current_time)
        bursts == _clean_old_calls(client_data.burst_calls, burst_period, current_time)
        cleaned == [client_data EXCEPT !.calls = calls, !.burst_calls = bursts]
        retry_after == (limits.period * TicksPerSecond - (current_time - oldest_call(calls)))
                           \div TicksPerSecond
    IN IF _is_whitelisted(client_ip)
       THEN [clients |-> store, allowed |-> TRUE, error |-> None]
       ELSE IF client_data.blocked_until # None /\ current_time < client_data.blocked_until[1]
       THEN [clients |-> store, allowed |-> FALSE, error |-> Some("rate_limit_exceeded")]
       ELSE IF Len(bursts) >= limits.burst
       THEN [clients |-> [store EXCEPT ![client_ip] =
                            [cleaned EXCEPT !.blocked_until =
                                Some(current_time + burst_period * TicksPerSecond)]],
             allowed |-> FALSE, error |-> Some("burst_limit_exceeded")]
       ELSE IF Len(calls) >= limits.calls
       THEN [clients |-> [store EXCEPT ![client_ip] =
                            [cleaned EXCEPT !.blocked_until =
                                Some(current_time + retry_after * TicksPerSecond)]],
             allowed |-> FALSE, error |-> Some("rate_limit_exceeded")]
       ELSE [clients |-> [store EXCEPT ![client_ip] =
                            [cleaned EXCEPT !.calls = Append(calls, current_time),
                                            !.burst_calls = Append(bursts, current_time)]],
             allowed |-> TRUE, error |-> None]

\* get_rate_limit_headers: the limiter's state after the headers are computed
get_rate_limit_headers(store, current_time, client_ip, endpoint) ==
    IF _is_whitelisted(client_ip) THEN store
    ELSE [store EXCEPT ![client_ip].calls =
             _clean_old_calls(@, _get_limits(endpoint).period, current_time)]

NoCall == [op |-> "none"]

\* no request is between its email check and its write (requests is the
\* bag of such requests)
NoRequests == EmptyBag

ScopeStore == [k \in 1..NumScopeUsers |-> ScopeUser(k)]

InitScope ==
    /\ users = ScopeStore
    /\ now = NumScopeUsers
    /\ tokens = {}
    /\ requests = NoRequests
    /\ clients = NoClients
    /\ last = NoCall

\* the acting user of a request: a stored, active user (get_current_user)
Actors == {i \in DOMAIN users : users[i].is_active}

\* requested list filters
RequestedFilters ==
    [facility_id : {None} \cup {Some(v) : v \in 1..(NumFacilities + 1)},
     district_id : {None} \cup {Some(v) : v \in 1..(NumDistricts + 1)},
     province_id : {None, Some(1)},
     role : {None, Some(ACCOUNTANT)},
     is_active : {None, Some(TRUE), Some(FALSE)},
     search : {None, Some(<<>>), Some(<<"A">>)}]

\* ids a request may name: every stored id and one that is not stored
RequestIds == DOMAIN users \cup {Cardinality(DOMAIN users) + 1}

\* the record of a call on one target (op names the service method that ran,
\* or the route dependency that refused the request): who called, on whom, what the target
\* was before the call, how the call ended, and whether the call repeats
\* the previous one (same call, actor and target, previous one successful)
Call(op, a, user_id, outcome) ==
    [op |-> op, actor |-> users[a], target |-> user_id,
     before |-> get_by_id(users, user_id), outcome |-> outcome,
     again |-> /\ last.op = op
               /\ last.outcome = "ok"
               /\ last.actor.id = a
               /\ last.target = user_id]

\* the clock moves on to a later instant of Times
Tick(Times) ==
    /\ \E t \in Times : t > now /\ now' = t
    /\ UNCHANGED <<users, tokens, requests, clients, last>>

\* PUT /users/{user_id}
UpdateUser(Payloads) ==
    \E a \in Actors, user_id \in RequestIds, user_data \in Payloads :
        LET r == update_user(users, now, user_id, user_data, users[a])
        IN /\ users' = r.store
           /\ last' = Call("update_user", a, user_id, r.outcome) @@ [user_data |-> user_data]
           /\ UNCHANGED <<now, tokens, requests, clients>>

\* DELETE /users/{user_id}
DeleteUser ==
    \E a \in Actors, user_id \in RequestIds :
        LET r == delete_user(users, now, user_id, users[a])
        IN /\ users' = r.store
           /\ last' = Call("delete_user", a, user_id, r.outcome)
           /\ UNCHANGED <<now, tokens, requests, clients>>

\* UserService.deactivate_user called for any authenticated user
DeactivateUser ==
    \E a \in Actors, user_id \in RequestIds :
        LET r == deactivate_user(users, now, user_id, users[a])
        IN /\ users' = r.store
           /\ last' = Call("deactivate_user", a, user_id, r.outcome)
           /\ UNCHANGED <<now, tokens, requests, clients>>

\* the dependency of the activate and deactivate routes
require_manager_or_admin(current_user) == current_user.role \in {ADMIN, MANAGER}

\* the dependency of the admin routes
require_admin(current_user) == current_user.role = ADMIN

\* POST /users/{user_id}/activate
ActivateUserRoute ==
    \E a \in Actors, user_id \in RequestIds :
        LET r == activate_user(users, now, user_id, users[a])
        IN IF require_manager_or_admin(users[a])
           THEN /\ users' = r.store
                /\ last' = Call("activate_user", a, user_id, r.outcome)
                /\ UNCHANGED <<now, tokens, requests, clients>>
           ELSE /\ last' = Call("require_manager_or_admin", a, user_id, "403")
                /\ UNCHANGED <<users, now, tokens, requests, clients>>

\* POST /users/{user_id}/deactivate
DeactivateUserRoute ==
    \E a \in Actors, user_id \in RequestIds :
        LET r == deactivate_user(users, now, user_id, users[a])
        IN IF require_manager_or_admin(users[a])
           THEN /\ users' = r.store
                /\ last' = Call("deactivate_user", a, user_id, r.outcome)
                /\ UNCHANGED <<now, tokens, requests, clients>>
           ELSE /\ last' = Call("require_manager_or_admin", a, user_id, "403")
                /\ UNCHANGED <<users, now, tokens, requests, clients>>

NoBuckets == [success |-> <<>>, failed |-> <<>>, not_found |-> <<>>, self_deactivation |-> <<>>]

\* the loop of bulk_activate_users over user_ids
RECURSIVE bulk_activate(_, _, _, _, _)
bulk_activate(store, t, user_ids, current_user, results) ==
    IF user_ids = <<>> THEN [store |-> store, results |-> results]
    ELSE LET user_id == Head(user_ids)
             r == activate_user(store, t, user_id, current_user)
         IN bulk_activate(r.store, t, Tail(user_ids), current_user,
                IF r.outcome = "ok" THEN [results EXCEPT !.success = Append(@, user_id)]
                ELSE IF r.outcome = "not_found" THEN [results EXCEPT !.not_found = Append(@, user_id)]
                ELSE [results EXCEPT !.failed = Append(@, user_id)])

\* the loop of bulk_deactivate_users over user_ids
RECURSIVE bulk_deactivate(_, _, _, _, _)
bulk_deactivate(store, t, user_ids, current_user, results) ==
    IF user_ids = <<>> THEN [store |-> store, results |-> results]
    ELSE LET user_id == Head(user_ids)
             r == deactivate_user(store, t, user_id, current_user)
         IN IF user_id = current_user.id
            THEN bulk_deactivate(store, t, Tail(user_ids), current_user,
                    [results EXCEPT !.self_deactivation = Append(@, user_id)])
            ELSE bulk_deactivate(r.store, t, Tail(user_ids), current_user,
                    IF r.outcome = "ok" THEN [results EXCEPT !.success = Append(@, user_id)]
                    ELSE IF r.outcome = "not_found" THEN [results EXCEPT !.not_found = Append(@, user_id)]
                    ELSE [results EXCEPT !.failed = Append(@, user_id)])

\* request bodies of the bulk routes
BulkIdLists == UNION {[1..n -> RequestIds] : n \in 0..MaxBulk}

BulkCall(op, a, user_ids, outcome, results) ==
    [op |-> op, actor |-> users[a], target |-> user_ids, before |-> users,
     outcome |-> outcome, again |-> FALSE, results |-> results]

\* POST /admin/users/bulk-activate
BulkActivate ==
    \E a \in Actors, user_ids \in BulkIdLists :
        LET r == bulk_activate(users, now, user_ids, users[a], NoBuckets)
        IN IF require_admin(users[a])
           THEN /\ users' = r.store
                /\ last' = BulkCall("bulk_activate", a, user_ids, "ok", r.results)
                /\ UNCHANGED <<now, tokens, requests, clients>>
           ELSE /\ last' = BulkCall("require_admin", a, user_ids, "403", NoBuckets)
                /\ UNCHANGED <<users, now, tokens, requests, clients>>

\* variant: a request with an id that is not found is rolled back as a whole
BulkDeactivate_all_or_nothing ==
    \E a \in Actors, user_ids \in BulkIdLists :
        LET r == bulk_deactivate(users, now, user_ids, users[a], NoBuckets)
        IN IF require_admin(users[a])
           THEN /\ users' = IF r.results.not_found # <<>> THEN users ELSE r.store
                /\ last' = BulkCall("bulk_deactivate", a, user_ids, "ok", r.results)
                /\ UNCHANGED <<now, tokens, requests, clients>>
           ELSE /\ last' = BulkCall("require_admin", a, user_ids, "403", NoBuckets)
                /\ UNCHANGED <<users, now, tokens, requests, clients>>

\* POST /admin/users/bulk-deactivate
BulkDeactivate ==
    \E a \in Actors, user_ids \in BulkIdLists :
        LET r == bulk_deactivate(users, now, user_ids, users[a], NoBuckets)
        IN IF require_admin(users[a])
           THEN /\ users' = r.store
                /\ last' = BulkCall("bulk_deactivate", a, user_ids, "ok", r.results)
                /\ UNCHANGED <<now, tokens, requests, clients>>
           ELSE /\ last' = BulkCall("require_admin", a, user_ids, "403", NoBuckets)
                /\ UNCHANGED <<users, now, tokens, requests, clients>>

\* POST /users/{user_id}/change-password
ChangeUserPassword ==
    \E a \in Actors, user_id \in RequestIds, current_password \in {"pw1", "pw2"},
       new_password \in {"pw2"} :
        LET r == change_user_password(users, now, user_id, current_password, new_password,
                                      users[a], 2)
        IN /\ users' = r.store
           /\ last' = Call("change_user_password", a, user_id, r.outcome)
                         @@ [current_password |-> current_password,
                             new_password |-> new_password]
           /\ UNCHANGED <<now, tokens, requests, clients>>

\* UserService._convert_to_response: the fields of a UserResponse (the
\* password hash is not among them)
_convert_to_response(user) ==
    [id |-> user.id, full_name |-> user.full_name, email |-> user.email,
     province_id |-> user.province_id, district_id |-> user.district_id,
     facility_id |-> user.facility_id, role |-> user.role,
     is_active |-> user.is_active, updated_at |-> user.updated_at,
     created_at |-> user.created_at]

\* UserService.get_user_by_id
get_user_by_id(store, user_id) ==
    IF get_by_id(store, user_id) = None THEN None
    ELSE Some(_convert_to_response(store[user_id]))

\* variant: reading is allowed where modifying is
_can_access_user_as_can_modify(current_user, target_user) ==
    IF current_user.role = ADMIN THEN TRUE
    ELSE IF current_user.role = MANAGER THEN
        /\ current_user.district_id = target_user.district_id
        /\ target_user.role = ACCOUNTANT
    ELSE current_user.id = target_user.id

_can_access_user(current_user, target_user) ==
    IF current_user.id = target_user.id THEN TRUE
    ELSE IF current_user.role = ADMIN THEN TRUE
    ELSE IF current_user.role = MANAGER THEN
        current_user.district_id = target_user.district_id
    ELSE FALSE

\* GET /users/{user_id}
GetUser ==
    \E a \in Actors, user_id \in RequestIds :
        LET user == get_user_by_id(users, user_id)
            outcome == IF user = None THEN "404"
                       ELSE IF ~_can_access_user(users[a], user[1]) THEN "403"
                       ELSE "ok"
        IN /\ last' = Call("get_user", a, user_id, outcome)
                         @@ [result |-> IF outcome = "ok" THEN user ELSE None]
           /\ UNCHANGED <<users, now, tokens, requests, clients>>

\* UserService.get_users_by_facility: the active users of the facility.
\* The query orders by full_name; the result is kept as the set of its rows
get_users_by_facility(store, facility_id) ==
    {_convert_to_response(store[i]) :
        i \in {j \in DOMAIN store : store[j].facility_id = facility_id /\ store[j].is_active}}

\* UserService.get_users_by_district, likewise
get_users_by_district(store, district_id) ==
    {_convert_to_response(store[i]) :
        i \in {j \in DOMAIN store : store[j].district_id = district_id /\ store[j].is_active}}

\* GET /users/facility/{facility_id}: the Manager branch of the handler
\* is a pass statement
GetUsersByFacility ==
    \E a \in Actors, facility_id \in 1..(NumFacilities + 1) :
        /\ last' = IF require_manager_or_admin(users[a])
                   THEN [op |-> "get_users_by_facility", actor |-> users[a],
                         requested |-> facility_id, outcome |-> "ok",
                         users |-> get_users_by_facility(users, facility_id)]
                   ELSE [op |-> "require_manager_or_admin", actor |-> users[a],
                         requested |-> facility_id, outcome |-> "403", users |-> {}]
        /\ UNCHANGED <<users, now, tokens, requests, clients>>

\* GET /users/district/{district_id}
GetUsersByDistrict ==
    \E a \in Actors, district_id \in 1..(NumDistricts + 1) :
        /\ last' = IF ~require_manager_or_admin(users[a])
                   THEN [op |-> "require_manager_or_admin", actor |-> users[a],
                         requested |-> district_id, outcome |-> "403", users |-> {}]
                   ELSE IF users[a].role = MANAGER /\ users[a].district_id # district_id
                   THEN [op |-> "get_users_by_district", actor |-> users[a],
                         requested |-> district_id, outcome |-> "403", users |-> {}]
                   ELSE [op |-> "get_users_by_district", actor |-> users[a],
                         requested |-> district_id, outcome |-> "ok",
                         users |-> get_users_by_district(users, district_id)]
        /\ UNCHANGED <<users, now, tokens, requests, clients>>

\* an evaluation of _can_modify_user on two stored users
CheckCanModify ==
    \E a \in DOMAIN users, t \in DOMAIN users :
        /\ last' = [op |-> "can_modify", actor |-> users[a], target |-> users[t],
                    result |-> _can_modify_user(users[a], users[t])]
        /\ UNCHANGED <<users, now, tokens, requests, clients>>

\* GET /users/ : get_users_list for an authenticated user
ListUsers ==
    \E a \in Actors, page \in 1..MaxPage, size \in 1..MaxSize, f \in RequestedFilters :
        \E resp \in get_users_list(users, page, size, f, users[a]) :
            /\ last' = [resp EXCEPT !.actor = users[a],
                                    !.users = [i \in 1..Len(resp.users) |-> users[resp.users[i]]]]
            /\ UNCHANGED <<users, now, tokens, requests, clients>>

\* request bodies of PUT /users/{user_id} sent against the store above: a
\* new name, the email of user 1, an email nobody has, a new role
ScopePayloads ==
    {[NoUpdate EXCEPT !.full_name = Some(<<"A">>)],
     [NoUpdate EXCEPT !.email = Some(ScopeEmail(0))],
     [NoUpdate EXCEPT !.email = Some(<<"b">>)],
     [NoUpdate EXCEPT !.role = Some(ADMIN)]}

\* one call on the store per behaviour
NextScope ==
    last = NoCall /\ (CheckCanModify \/ ListUsers \/ DeleteUser \/ DeactivateUser
                          \/ UpdateUser(ScopePayloads) \/ ChangeUserPassword \/ GetUser
                          \/ GetUsersByFacility \/ GetUsersByDistrict)

SpecScope == InitScope /\ [][NextScope]_vars

----------------------------------------------------------------------------
(* C1: _can_modify_user returns true exactly when the actor is Admin, or   *)
(* the actor is Manager and the target is an Accountant of the actor's     *)
(* district, or the actor is Accountant and the target is the actor; the   *)
(* result is a function of actor.role, actor.district_id, target.role,     *)
(* target.district_id and (actor.id = target.id) alone.                    *)

CanModifyTable(actor_role, actor_district, target_role, target_district, same_id) ==
    \/ actor_role = ADMIN
    \/ actor_role = MANAGER /\ target_district = actor_district /\ target_role = ACCOUNTANT
    \/ actor_role = ACCOUNTANT /\ same_id

C1_CanModifyDecisionTable ==
    last.op = "can_modify" =>
        last.result = CanModifyTable(last.actor.role, last.actor.district_id,
                                     last.target.role, last.target.district_id,
                                     last.actor.id = last.target.id)

C1_Witness ==
    /\ last.op = "can_modify"
    /\ last.actor.role = MANAGER
    /\ last.target.role = MANAGER
    /\ last.target.district_id = last.actor.district_id
    /\ last.actor.id # last.target.id
    /\ last.result = FALSE

(* C2: for a Manager actor the list query runs with district_id equal to   *)
(* the actor's district whatever was requested, every returned row is of   *)
(* that district, and the call succeeds.                                   *)

C2_ManagerDistrictForced ==
    (last.op = "get_users_list" /\ last.actor.role = MANAGER) =>
        /\ last.outcome = "ok"
        /\ last.effective.district_id = Some(last.actor.district_id)
        /\ \A i \in 1..Len(last.users) : last.users[i].district_id = last.actor.district_id

C2_Witness ==
    /\ last.op = "get_users_list"
    /\ last.actor.role = MANAGER
    /\ last.requested.district_id # None
    /\ last.requested.district_id # Some(last.actor.district_id)
    /\ last.requested.district_id[1] \in Districts
    /\ Len(last.users) > 0
    /\ last.outcome = "ok"

(* C3: for an Accountant actor the list query runs with facility_id equal  *)
(* to the actor's facility whatever was requested, and every returned row  *)
(* is of that facility.                                                    *)

C3_AccountantFacilityForced ==
    (last.op = "get_users_list" /\ last.actor.role = ACCOUNTANT) =>
        /\ last.effective.facility_id = Some(last.actor.facility_id)
        /\ \A i \in 1..Len(last.users) : last.users[i].facility_id = last.actor.facility_id

C3_Witness ==
    /\ last.op = "get_users_list"
    /\ last.actor.role = ACCOUNTANT
    /\ last.requested.facility_id # None
    /\ last.requested.facility_id # Some(last.actor.facility_id)
    /\ last.requested.facility_id[1] \in Facilities
    /\ Len(last.users) > 0

(* C4: scope narrowing is total: every role and every requested filter     *)
(* set yields one effective filter set without error; Admin filters pass   *)
(* through unchanged, and for Manager (Accountant) every filter but        *)
(* district_id (facility_id) passes through unchanged.                     *)

C4_NarrowingTotal ==
    last.op = "get_users_list" =>
        /\ last.outcome = "ok"
        /\ last.actor.role \in UserRole
        /\ last.actor.role = ADMIN => last.effective = last.requested
        /\ last.actor.role = MANAGER =>
               last.effective = [last.requested EXCEPT !.district_id = Some(last.actor.district_id)]
        /\ last.actor.role = ACCOUNTANT =>
               last.effective = [last.requested EXCEPT !.facility_id = Some(last.actor.facility_id)]

C4_Witness ==
    /\ last.op = "get_users_list"
    /\ last.actor.role = MANAGER
    /\ last.requested.facility_id # None
    /\ last.requested.facility_id # Some(last.actor.facility_id)
    /\ last.effective.facility_id = last.requested.facility_id
    /\ last.requested.role # None
    /\ last.requested.search = Some(<<"A">>)

----------------------------------------------------------------------------
(* The directory: an Admin and an Accountant of district 1, then any       *)
(* sequence of update, delete, activate, deactivate and bulk requests.     *)

SeedUser(k, email, role) ==
    [id |-> k, email |-> email, full_name |-> <<"B">>,
     password_hash |-> get_password_hash("pw1", 1),
     province_id |-> 1, district_id |-> 1, facility_id |-> 1,
     role |-> role, is_active |-> TRUE, created_at |-> 0, updated_at |-> 0]

SeedUsers == <<SeedUser(1, <<"a">>, ADMIN), SeedUser(2, <<"b">>, ACCOUNTANT)>>

InitDir ==
    /\ users = SeedUsers
    /\ now = 0
    /\ tokens = {}
    /\ requests = NoRequests
    /\ clients = NoClients
    /\ last = NoCall

\* request bodies of PUT /users/{user_id}
DirPayloads ==
    {[NoUpdate EXCEPT !.is_active = Some(b)] : b \in BOOLEAN}
    \cup {[NoUpdate EXCEPT !.role = Some(r)] : r \in UserRole}
    \cup {[NoUpdate EXCEPT !.district_id = Some(d)] : d \in Districts}

NextDir ==
    \/ Tick(0..MaxClock)
    \/ UpdateUser(DirPayloads)
    \/ DeleteUser
    \/ ActivateUserRoute
    \/ DeactivateUserRoute
    \/ BulkActivate
    \/ BulkDeactivate

SpecDir == InitDir /\ [][NextDir]_vars

\* the single-account routes only: accounts are edited, deactivated and
\* reactivated one at a time
NextAccount ==
    \/ Tick(0..MaxClock)
    \/ UpdateUser(DirPayloads)
    \/ ActivateUserRoute
    \/ DeactivateUserRoute

SpecAccount == InitDir /\ [][NextAccount]_vars

----------------------------------------------------------------------------
(* Requests of the token service.  tokens holds every token issued so far  *)
(* with how it was issued: by login ("access") or by the forgot-password   *)
(* route ("reset"), when, and for login to which user.                     *)

Issued(jwt, kind, issued_to) ==
    [jwt |-> jwt, kind |-> kind, issued_at |-> now, issued_to |-> issued_to]

\* emails and passwords a client may send
AuthEmails == {<<"a">>, <<"b">>, <<"A">>}
Passwords == {"pw1", "pw2"}
NewPasswords == {"pw2"}

\* what a client may present instead of a token it was given: the token
\* itself or the same claims signed with another key; the verify functions
\* are also applied to the token with the sub or the user_id claim removed
Alter(jwt, alteration) ==
    IF alteration = "resigned" THEN [jwt EXCEPT !.key = another_key]
    ELSE IF alteration = "no_sub" THEN [jwt EXCEPT !.claims.sub = None]
    ELSE IF alteration = "no_user_id" THEN [jwt EXCEPT !.claims.user_id = None]
    ELSE jwt

Presentable == {"none", "resigned"}
Alterations == {"none", "resigned", "no_sub", "no_user_id"}

\* AuthService.login
Login ==
    \E email \in AuthEmails, password \in Passwords :
        LET r == login(users, now, email, password)
            tk == Issued(r[1].access_token, "access", Some(r[1].user))
        IN IF r = None
           THEN /\ last' = [op |-> "login", email |-> email, password |-> password,
                            at |-> now, outcome |-> "401"]
                /\ UNCHANGED <<users, now, tokens, requests, clients>>
           ELSE /\ Cardinality(tokens \cup {tk}) <= MaxTokens
                /\ tokens' = tokens \cup {tk}
                /\ last' = [op |-> "login", email |-> email, password |-> password,
                            at |-> now, outcome |-> "ok"]
                /\ UNCHANGED <<users, now, requests, clients>>

\* POST /auth/forgot-password
ForgotPassword ==
    \E email \in AuthEmails :
        LET tk == Issued(create_password_reset_token(email, now), "reset", None)
        IN /\ Cardinality(tokens \cup {tk}) <= MaxTokens
           /\ tokens' = tokens \cup {tk}
           /\ last' = [op |-> "forgot_password", email |-> email, at |-> now, outcome |-> "ok"]
           /\ UNCHANGED <<users, now, requests, clients>>

TokenCall(op, tk, alteration, result) ==
    [op |-> op, issued |-> tk, alteration |-> alteration, at |-> now, result |-> result]

\* AuthService.verify_token
VerifyToken ==
    \E tk \in tokens, alteration \in Alterations :
        /\ last' = TokenCall("verify_token", tk, alteration,
                             verify_token(Alter(tk.jwt, alteration), now))
        /\ UNCHANGED <<users, now, tokens, requests, clients>>

\* AuthService.verify_password_reset_token
VerifyPasswordResetToken ==
    \E tk \in tokens, alteration \in Alterations :
        /\ last' = TokenCall("verify_password_reset_token", tk, alteration,
                             verify_password_reset_token(Alter(tk.jwt, alteration), now))
        /\ UNCHANGED <<users, now, tokens, requests, clients>>

\* the get_current_user dependency of every authenticated route
GetCurrentUser ==
    \E tk \in tokens, alteration \in Presentable :
        /\ last' = TokenCall("get_current_user", tk, alteration,
                             get_current_user(users, now, Alter(tk.jwt, alteration)))
        /\ UNCHANGED <<users, now, tokens, requests, clients>>

\* POST /auth/reset-password
ResetPassword ==
    \E tk \in tokens, alteration \in Presentable, new_password \in NewPasswords :
        LET r == reset_password(users, now, Alter(tk.jwt, alteration), new_password, 2)
        IN /\ users' = r.store
           /\ last' = TokenCall("reset_password", tk, alteration, r.outcome)
           /\ UNCHANGED <<now, tokens, requests, clients>>

\* instants at which the token service is observed: around the issue of a
\* token and around the expiry of an access token issued then
TokenTimes == {0, 1} \cup {Minutes(ACCESS_TOKEN_EXPIRE_MINUTES) + d : d \in 0..(TicksPerSecond + 1)}

InitToken == InitDir

NextToken ==
    \/ Tick(TokenTimes)
    \/ Login
    \/ ForgotPassword
    \/ VerifyToken
    \/ VerifyPasswordResetToken
    \/ GetCurrentUser
    \/ ResetPassword

SpecToken == InitToken /\ [][NextToken]_vars

----------------------------------------------------------------------------
(* C5: for an actor of any role, deactivate_user and delete_user on the    *)
(* actor's own id end in the business-rule error (ValueError), also where  *)
(* the permission check would refuse, and leave the actor's record as it   *)
(* was.                                                                    *)

C5_SelfDeactivationRejected ==
    (last.op \in {"deactivate_user", "delete_user"} /\ last.target = last.actor.id) =>
        /\ last.outcome = "ValueError"
        /\ users[last.target] = last.before[1]
        /\ users[last.target].is_active = last.actor.is_active

C5_Witness ==
    /\ last.op = "delete_user"
    /\ last.target = last.actor.id
    /\ last.actor.role = MANAGER
    /\ ~_can_modify_user(last.actor, last.actor)
    /\ last.outcome = "ValueError"
    /\ users[last.target].is_active

(* C6: no request changes the is_active flag of its own actor from true    *)
(* to false.                                                               *)

DirectoryOps == {"update_user", "delete_user", "activate_user", "deactivate_user",
                 "bulk_activate", "bulk_deactivate"}

C6_NoSelfDeactivation ==
    [][\A u \in DOMAIN users :
          (last'.op \in DirectoryOps /\ last'.actor.id = u /\ users[u].is_active)
              => users'[u].is_active]_vars

(* C7: a successful deactivate_user leaves the target inactive, and the    *)
(* same call repeated by the same actor succeeds again, leaves the target  *)
(* inactive and changes nothing of it but updated_at.                      *)

C7_DeactivateIdempotent ==
    last.op = "deactivate_user" =>
        /\ last.outcome = "ok" => ~users[last.target].is_active
        /\ last.again =>
              /\ last.outcome = "ok"
              /\ ~last.before[1].is_active
              /\ users[last.target] =
                    [last.before[1] EXCEPT !.updated_at = users[last.target].updated_at]

C7_Witness ==
    /\ last.op = "deactivate_user"
    /\ last.again
    /\ last.outcome = "ok"
    /\ last.actor.role = MANAGER
    /\ ~users[last.target].is_active
    /\ users[last.target].updated_at > last.before[1].updated_at

----------------------------------------------------------------------------
(* Sessions: users log in, emails are changed, accounts are deactivated    *)
(* and reactivated, and tokens issued earlier are presented again.         *)

\* request bodies of PUT /users/{user_id} that change the email
AuthPayloads == {[NoUpdate EXCEPT !.email = Some(e)] : e \in AuthEmails}

\* the issue of a token and an instant after its expiry
AuthTimes == {0, Minutes(ACCESS_TOKEN_EXPIRE_MINUTES) + TicksPerSecond}

InitAuth == InitDir

NextAuth ==
    \/ Tick(AuthTimes)
    \/ Login
    \/ GetCurrentUser
    \/ UpdateUser(AuthPayloads)
    \/ DeactivateUserRoute
    \/ ActivateUserRoute

SpecAuth == InitAuth /\ [][NextAuth]_vars

----------------------------------------------------------------------------
(* C8 as stated: verify_token on the access token of a login returns the   *)
(* user's (email, id) at any time before issue time + lifetime and None    *)
(* at any time after it; re-signed with another key, or without sub or     *)
(* user_id, the token yields None.                                         *)

Expiry(tk) == tk.issued_at + Minutes(ACCESS_TOKEN_EXPIRE_MINUTES)

IssuedTokenData(tk) == Some([email |-> tk.issued_to[1].email, user_id |-> tk.issued_to[1].id])

C8_RoundTripExactExpiry ==
    (last.op = "verify_token" /\ last.issued.kind = "access") =>
        IF last.alteration = "none"
        THEN /\ last.at < Expiry(last.issued) => last.result = IssuedTokenData(last.issued)
             /\ last.at > Expiry(last.issued) => last.result = None
        ELSE last.result = None

(* C8 amended: ... and None at any time one second or more after it (the   *)
(* expiry is kept in whole seconds, a token still verifies during the      *)
(* second its expiry falls in).                                            *)

C8_RoundTripWholeSeconds ==
    (last.op = "verify_token" /\ last.issued.kind = "access") =>
        IF last.alteration = "none"
        THEN /\ last.at < Expiry(last.issued) => last.result = IssuedTokenData(last.issued)
             /\ last.at >= Expiry(last.issued) + TicksPerSecond => last.result = None
        ELSE last.result = None

C8_Witness ==
    /\ last.op = "verify_token"
    /\ last.issued.kind = "access"
    /\ last.alteration = "none"
    /\ last.at >= Expiry(last.issued) + TicksPerSecond
    /\ last.result = None

(* C9: a token made by create_password_reset_token is rejected by          *)
(* verify_token and get_current_user; an access token made by login is     *)
(* rejected by verify_password_reset_token and reset_password, which then  *)
(* changes no password.                                                    *)

C9_Rejected ==
    /\ (last.op \in {"verify_token", "get_current_user"} /\ last.issued.kind = "reset")
          => last.result = None
    /\ (last.op = "verify_password_reset_token" /\ last.issued.kind = "access")
          => last.result = None
    /\ (last.op = "reset_password" /\ last.issued.kind = "access")
          => last.result = "fail"

C9_TokenTypeIsolation ==
    /\ []C9_Rejected
    /\ [][(last'.op = "reset_password" /\ last'.issued.kind = "access") => users' = users]_vars

C9_Witness ==
    /\ last.op = "reset_password"
    /\ last.issued.kind = "access"
    /\ last.alteration = "none"
    /\ last.at < Expiry(last.issued)
    /\ last.result = "fail"

(* C10: while user U is inactive, a request with an unexpired access token *)
(* issued to U is rejected by get_current_user, and login with U's email   *)
(* and password fails.                                                     *)

C10_DeactivatedCannotAuthenticate ==
    /\ (/\ last.op = "get_current_user"
        /\ last.issued.kind = "access"
        /\ ~users[last.issued.issued_to[1].id].is_active)
          => last.result = None
    /\ (/\ last.op = "login"
        /\ \E u \in DOMAIN users :
              /\ users[u].email = last.email
              /\ verify_password(last.password, users[u].password_hash)
              /\ ~users[u].is_active)
          => last.outcome = "401"

(* C11: get_current_user accepts an access token exactly when it carries   *)
(* the service's signature, is unexpired and the user it was issued to is  *)
(* active, whatever other fields of that user were updated since.          *)

C11_TokenValidIffIssuedUserActive ==
    (/\ last.op = "get_current_user"
     /\ last.issued.kind = "access"
     /\ last.at < Expiry(last.issued)) =>
        (last.result # None <=>
            /\ last.alteration = "none"
            /\ users[last.issued.issued_to[1].id].is_active)

----------------------------------------------------------------------------
(* Registration: POST /users/ creates accounts next to the update and      *)
(* deactivate routes.                                                      *)

\* the unique constraint of the users.email column
EmailUnique(store) ==
    \A i, j \in DOMAIN store : store[i].email = store[j].email => i = j

\* UserRepository.create: INSERT and commit; the commit fails with an
\* IntegrityError when the unique constraint on email is violated
repo_create(store, t, user_data, password_hash) ==
    LET user == [id |-> Len(store) + 1,
                 email |-> user_data.email,
                 full_name |-> user_data.full_name,
                 password_hash |-> password_hash,
                 province_id |-> user_data.province_id,
                 district_id |-> user_data.district_id,
                 facility_id |-> user_data.facility_id,
                 role |-> user_data.role,
                 is_active |-> user_data.is_active,
                 created_at |-> t,
                 updated_at |-> t]
    IN IF EmailUnique(Append(store, user)) THEN Result("ok", Append(store, user))
       ELSE Result("IntegrityError", store)

\* variant: only active records count as already registered
create_user_checks_active_only(store, t, user_data, salt) ==
    IF get_active_by_email(store, user_data.email) # None THEN Result("ValueError", store)
    ELSE repo_create(store, t, user_data, get_password_hash(user_data.password, salt))

\* UserService.create_user
create_user(store, t, user_data, salt) ==
    IF exists_by_email(store, user_data.email, None) THEN Result("ValueError", store)
    ELSE repo_create(store, t, user_data, get_password_hash(user_data.password, salt))

\* request bodies of POST /users/
CreatePayloads ==
    {[full_name |-> <<"B">>, email |-> e, password |-> "pw1",
      province_id |-> 1, district_id |-> 1, facility_id |-> 1,
      role |-> ACCOUNTANT, is_active |-> TRUE] : e \in AuthEmails}

\* the record of a create call: who called, with what body, on which store
CreateCall(op, a, user_data, outcome) ==
    [op |-> op, actor |-> users[a], user_data |-> user_data,
     before |-> users, outcome |-> outcome]

\* POST /users/
CreateUser ==
    \E a \in Actors, user_data \in CreatePayloads :
        LET r == create_user(users, now, user_data, 1)
        IN IF require_admin(users[a])
           THEN /\ Len(r.store) <= MaxUsers
                /\ users' = r.store
                /\ last' = CreateCall("create_user", a, user_data, r.outcome)
                /\ UNCHANGED <<now, tokens, requests, clients>>
           ELSE /\ last' = CreateCall("require_admin", a, user_data, "403")
                /\ UNCHANGED <<users, now, tokens, requests, clients>>

NextRegister ==
    \/ Tick(0..MaxClock)
    \/ CreateUser
    \/ UpdateUser(AuthPayloads)
    \/ DeactivateUserRoute

SpecRegister == InitDir /\ [][NextRegister]_vars

(* C12: create_user with an email equal, character for character, to the   *)
(* email of a stored record, active or not, ends in the duplicate error    *)
(* (ValueError), inserts nothing and leaves every record as it was.        *)

C12_DuplicateEmailRejected ==
    (/\ last.op = "create_user"
     /\ \E i \in DOMAIN last.before : last.before[i].email = last.user_data.email) =>
        /\ last.outcome = "ValueError"
        /\ users = last.before

C12_Witness ==
    /\ last.op = "create_user"
    /\ \E i \in DOMAIN last.before :
          /\ last.before[i].email = last.user_data.email
          /\ ~last.before[i].is_active
    /\ last.outcome = "ValueError"
    /\ users = last.before

----------------------------------------------------------------------------
(* Concurrent requests: a create or update request runs its checks in one  *)
(* step and its write in a later one; other requests run in between.       *)

\* emails sent by the concurrent requests: one that is free at the start
\* and one that is taken
RaceEmails == {<<"A">>, <<"b">>}

RacePayloads == {ud \in CreatePayloads : ud.email \in RaceEmails}

RaceUpdates == {ud \in AuthPayloads : ud.email[1] \in RaceEmails}

\* the checks of update_user before its write: "ok" or the error raised
update_user_check(store, user_id, user_data, current_user) ==
    IF get_by_id(store, user_id) = None THEN "not_found"
    ELSE IF ~_can_modify_user(current_user, store[user_id]) THEN "PermissionError"
    ELSE IF user_data.email # None /\ exists_by_email(store, user_data.email[1], Some(user_id))
        THEN "ValueError"
    ELSE "ok"

\* variant: the commit of an update is not checked against the constraint
repo_update_commit_unconstrained(store, t, user_id, user_data) ==
    Result("ok", repo_update(store, t, user_id, user_data))

\* UserRepository.update with its commit: the commit fails with an
\* IntegrityError when the unique constraint on email is violated
repo_update_commit(store, t, user_id, user_data) ==
    IF EmailUnique(repo_update(store, t, user_id, user_data))
    THEN Result("ok", repo_update(store, t, user_id, user_data))
    ELSE Result("IntegrityError", store)

RaceCall(op, outcome) == [op |-> op, outcome |-> outcome, inflight |-> BagCardinality(requests)]

\* POST /users/ up to the email check of create_user
BeginCreateUser ==
    \E a \in Actors, user_data \in RacePayloads :
        /\ require_admin(users[a])
        /\ BagCardinality(requests) < MaxInflight
        /\ IF exists_by_email(users, user_data.email, None)
           THEN /\ last' = RaceCall("create_user", "ValueError")
                /\ UNCHANGED <<users, now, tokens, requests, clients>>
           ELSE /\ requests' = requests (+) SetToBag({[kind |-> "create", user_data |-> user_data]})
                /\ last' = RaceCall("create_user_check", "ok")
                /\ UNCHANGED <<users, now, tokens, clients>>

\* POST /users/ from the hash on: UserRepository.create
FinishCreateUser ==
    \E req \in BagToSet(requests) :
        LET r == repo_create(users, now, req.user_data, get_password_hash(req.user_data.password, 1))
        IN /\ req.kind = "create"
           /\ Len(r.store) <= MaxUsers
           /\ users' = r.store
           /\ requests' = requests (-) SetToBag({req})
           /\ last' = RaceCall("create_user", r.outcome)
           /\ UNCHANGED <<now, tokens, clients>>

\* PUT /users/{user_id} up to the email check of update_user
BeginUpdateUser ==
    \E a \in Actors, user_id \in RequestIds, user_data \in RaceUpdates :
        LET outcome == update_user_check(users, user_id, user_data, users[a])
        IN /\ BagCardinality(requests) < MaxInflight
           /\ IF outcome # "ok"
              THEN /\ last' = RaceCall("update_user", outcome)
                   /\ UNCHANGED <<users, now, tokens, requests, clients>>
              ELSE /\ requests' = requests (+) SetToBag({[kind |-> "update", user_id |-> user_id,
                                                          user_data |-> user_data]})
                   /\ last' = RaceCall("update_user_check", "ok")
                   /\ UNCHANGED <<users, now, tokens, clients>>

\* PUT /users/{user_id} from the write on: UserRepository.update
FinishUpdateUser ==
    \E req \in BagToSet(requests) :
        /\ req.kind = "update"
        /\ LET r == repo_update_commit(users, now, req.user_id, req.user_data)
           IN /\ users' = r.store
              /\ requests' = requests (-) SetToBag({req})
              /\ last' = RaceCall("update_user", r.outcome)
              /\ UNCHANGED <<now, tokens, clients>>

NextRace ==
    \/ BeginCreateUser
    \/ FinishCreateUser
    \/ BeginUpdateUser
    \/ FinishUpdateUser

SpecRace == InitDir /\ [][NextRace]_vars

(* C13: no two user records carry the same email in any reachable state,   *)
(* also when the email checks of several create and update requests all    *)
(* run before any of their writes.                                         *)

C13_EmailUniqueness ==
    \A i \in DOMAIN users : \A j \in DOMAIN users :
        i # j => users[i].email # users[j].email

C13_Witness ==
    /\ last.op = "update_user"
    /\ last.outcome = "IntegrityError"
    /\ last.inflight > 1
    /\ \E i \in DOMAIN users : users[i].email = <<"A">>

----------------------------------------------------------------------------
(* C14: update_user on a stored target ends in PermissionError and changes *)
(* no record when the actor may not modify the target, also when the       *)
(* requested email is taken; it ends in ValueError and changes nothing     *)
(* when the actor may modify the target and another record has the         *)
(* requested email; otherwise it writes the set fields to the target and   *)
(* nothing else.  On an unknown id it returns nothing and changes nothing. *)

C14_UpdateChecksInOrder ==
    last.op = "update_user" =>
        LET allowed == CanModifyTable(last.actor.role, last.actor.district_id,
                                      last.before[1].role, last.before[1].district_id,
                                      last.actor.id = last.target)
            taken == /\ last.user_data.email # None
                     /\ \E i \in DOMAIN ScopeStore :
                           i # last.target /\ ScopeStore[i].email = last.user_data.email[1]
        IN IF last.before = None THEN last.outcome = "not_found" /\ users = ScopeStore
           ELSE IF ~allowed THEN last.outcome = "PermissionError" /\ users = ScopeStore
           ELSE IF taken THEN last.outcome = "ValueError" /\ users = ScopeStore
           ELSE /\ last.outcome = "ok"
                /\ users = [ScopeStore EXCEPT ![last.target] =
                              [@ EXCEPT !.full_name = SetField(@, last.user_data.full_name),
                                        !.email = SetField(@, last.user_data.email),
                                        !.role = SetField(@, last.user_data.role),
                                        !.updated_at = now]]

C14_Witness ==
    /\ last.op = "update_user"
    /\ last.actor.role = ACCOUNTANT
    /\ last.before # None
    /\ last.target # last.actor.id
    /\ last.user_data.email = Some(ScopeEmail(0))
    /\ last.target # 1
    /\ last.outcome = "PermissionError"
    /\ users = ScopeStore

----------------------------------------------------------------------------
(* C15: a list response has total equal to the number of rows that match   *)
(* the effective filters, on every page; total_pages is the least number   *)
(* of pages of the given size that hold total rows, and 1 when there are   *)
(* none; it has at most size items, and they are the rows at positions     *)
(* (page-1)*size .. page*size-1 of the matching rows, newest first.        *)

C15_Pagination ==
    last.op = "get_users_list" =>
        LET M == {i \in DOMAIN users : MatchesFilters(users[i], last.effective)}
            first == (last.page - 1) * last.size
            Newer(i) == Cardinality({j \in M : users[j].created_at > users[i].created_at})
            NotOlder(i) == Cardinality({j \in M : users[j].created_at >= users[i].created_at})
        IN /\ last.total = Cardinality(M)
           /\ last.total_pages >= 1
           /\ last.total_pages * last.size >= last.total
           /\ last.total_pages > 1 => (last.total_pages - 1) * last.size < last.total
           /\ Len(last.users) <= last.size
           /\ Len(last.users) = IF last.total <= first THEN 0
                                ELSE Min(last.size, last.total - first)
           /\ \A k \in 1..Len(last.users) :
                 /\ last.users[k].id \in M
                 /\ last.users[k] = users[last.users[k].id]
                 /\ Newer(last.users[k].id) <= first + k - 1
                 /\ first + k - 1 < NotOlder(last.users[k].id)
           /\ \A k, l \in 1..Len(last.users) : last.users[k].id = last.users[l].id => k = l

\* the second, partly filled page of three matching rows
C15_Witness ==
    /\ last.op = "get_users_list"
    /\ last.page = 2
    /\ last.size = 2
    /\ last.total = 3
    /\ last.total_pages = 2
    /\ Len(last.users) = 1

----------------------------------------------------------------------------
(* The role-transition endpoints of the admin router *)

\* POST /admin/users/{user_id}/promote-to-admin.  admin.py does not import
\* UserUpdate: building the update raises NameError, which the handler's
\* except Exception turns into a 500 before update_user is called
promote_user_to_admin(store, t, user_id, confirmation, current_user) ==
    IF ~confirmation THEN Result("400", store)
    ELSE IF get_by_id(store, user_id) = None THEN Result("404", store)
    ELSE IF store[user_id].role = ADMIN THEN Result("400", store)
    ELSE Result("500", store)

\* variant: the actor's own id is not refused
demote_admin_user_no_self_check(store, t, user_id, new_role, confirmation, current_user) ==
    IF ~confirmation THEN Result("400", store)
    ELSE IF new_role = ADMIN THEN Result("400", store)
    ELSE IF get_by_id(store, user_id) = None THEN Result("404", store)
    ELSE IF store[user_id].role # ADMIN THEN Result("400", store)
    ELSE Result("500", store)

\* POST /admin/users/{user_id}/demote-from-admin, with the same NameError
demote_admin_user(store, t, user_id, new_role, confirmation, current_user) ==
    IF ~confirmation THEN Result("400", store)
    ELSE IF user_id = current_user.id THEN Result("400", store)
    ELSE IF new_role = ADMIN THEN Result("400", store)
    ELSE IF get_by_id(store, user_id) = None THEN Result("404", store)
    ELSE IF store[user_id].role # ADMIN THEN Result("400", store)
    ELSE Result("500", store)

PromoteUser ==
    \E a \in Actors, user_id \in RequestIds, confirmation \in BOOLEAN :
        LET r == promote_user_to_admin(users, now, user_id, confirmation, users[a])
        IN IF require_admin(users[a])
           THEN /\ users' = r.store
                /\ last' = Call("promote_user_to_admin", a, user_id, r.outcome)
                              @@ [confirmation |-> confirmation, new_role |-> ADMIN]
                /\ UNCHANGED <<now, tokens, requests, clients>>
           ELSE /\ last' = Call("require_admin", a, user_id, "403")
                /\ UNCHANGED <<users, now, tokens, requests, clients>>

DemoteUser ==
    \E a \in Actors, user_id \in RequestIds, new_role \in UserRole, confirmation \in BOOLEAN :
        LET r == demote_admin_user(users, now, user_id, new_role, confirmation, users[a])
        IN IF require_admin(users[a])
           THEN /\ users' = r.store
                /\ last' = Call("demote_admin_user", a, user_id, r.outcome)
                              @@ [confirmation |-> confirmation, new_role |-> new_role]
                /\ UNCHANGED <<now, tokens, requests, clients>>
           ELSE /\ last' = Call("require_admin", a, user_id, "403")
                /\ UNCHANGED <<users, now, tokens, requests, clients>>

\* request bodies of PUT /users/{user_id} that change the role
RolePayloads == {[NoUpdate EXCEPT !.role = Some(r)] : r \in UserRole}

NextRoles ==
    \/ Tick(0..MaxClock)
    \/ UpdateUser(RolePayloads)
    \/ PromoteUser
    \/ DemoteUser

SpecRoles == InitDir /\ [][NextRoles]_vars

(* C16: promote-to-admin is refused (400) and changes nothing of the       *)
(* target when the confirmation is false or the target is already Admin;   *)
(* demote-from-admin is refused (400) and changes nothing of the target    *)
(* when the confirmation is false, the target is the actor, the new role   *)
(* is Admin or the target is not an Admin; no call of either endpoint on   *)
(* the actor's own id succeeds or changes the actor's role.                *)

C16_RoleTransitionsGuarded ==
    LET stored == last.before # None
        kept == stored => users[last.target] = last.before[1]
    IN /\ (/\ last.op = "promote_user_to_admin"
           /\ (~last.confirmation \/ (stored /\ last.before[1].role = ADMIN)))
             => last.outcome = "400" /\ kept
       /\ (/\ last.op = "demote_admin_user"
           /\ \/ ~last.confirmation
              \/ last.target = last.actor.id
              \/ last.new_role = ADMIN
              \/ (stored /\ last.before[1].role # ADMIN))
             => last.outcome = "400" /\ kept
       /\ (/\ last.op \in {"promote_user_to_admin", "demote_admin_user"}
           /\ last.target = last.actor.id)
             => last.outcome = "400" /\ users[last.target].role = last.actor.role

C16_Witness ==
    /\ last.op = "demote_admin_user"
    /\ last.confirmation
    /\ last.target = last.actor.id
    /\ last.new_role = MANAGER
    /\ last.outcome = "400"
    /\ users[last.target].role = ADMIN

----------------------------------------------------------------------------
(* The bulk routes next to single deactivations *)

NextBulk ==
    \/ Tick(0..MaxClock)
    \/ DeactivateUserRoute
    \/ BulkActivate
    \/ BulkDeactivate

SpecBulk == InitDir /\ [][NextBulk]_vars

(* C17: a bulk request handles every id of its list in order and puts each *)
(* occurrence in exactly one bucket: not_found for an id that is not       *)
(* stored, self_deactivation for the actor's own id in a bulk-deactivate,  *)
(* success otherwise; ids after a missing or rejected id are still         *)
(* handled, every id in success is left activated (deactivated), every     *)
(* other record keeps its flag, and the actor of a bulk-deactivate stays   *)
(* active.                                                                 *)

C17_BulkPerIdResults ==
    last.op \in {"bulk_activate", "bulk_deactivate"} =>
        LET ids == last.target
            res == last.results
            deactivating == last.op = "bulk_deactivate"
            Missing(x) == x \notin DOMAIN last.before
            Self(x) == deactivating /\ x = last.actor.id
            Done(x) == ~Missing(x) /\ ~Self(x)
            Count(seq, x) == Cardinality({k \in DOMAIN seq : seq[k] = x})
            InSuccess(x) == \E k \in DOMAIN res.success : res.success[k] = x
        IN /\ last.outcome = "ok"
           /\ res.not_found = SelectSeq(ids, Missing)
           /\ res.self_deactivation = SelectSeq(ids, Self)
           /\ res.success = SelectSeq(ids, Done)
           /\ res.failed = <<>>
           /\ \A k \in DOMAIN ids :
                 Count(ids, ids[k]) = Count(res.success, ids[k]) + Count(res.failed, ids[k])
                                        + Count(res.not_found, ids[k])
                                        + Count(res.self_deactivation, ids[k])
           /\ DOMAIN users = DOMAIN last.before
           /\ \A i \in DOMAIN users :
                 users[i].is_active = IF InSuccess(i) THEN ~deactivating
                                      ELSE last.before[i].is_active
           /\ deactivating => users[last.actor.id].is_active

\* a missing id, then a stored one: the stored one is still deactivated
C17_Witness ==
    /\ last.op = "bulk_deactivate"
    /\ Len(last.target) = 2
    /\ last.target[1] \notin DOMAIN users
    /\ last.target[2] \in DOMAIN users
    /\ last.results.not_found = <<last.target[1]>>
    /\ last.results.success = <<last.target[2]>>
    /\ last.before[last.target[2]].is_active
    /\ ~users[last.target[2]].is_active

----------------------------------------------------------------------------
(* C18: change_user_password by an actor who is neither the target nor an  *)
(* Admin ends in PermissionError and changes nothing, also for a Manager   *)
(* on an Accountant of the Manager's district; a permitted call replaces   *)
(* the target's hash by one of the new password when the current password  *)
(* verifies against the stored hash, and otherwise returns False and       *)
(* changes nothing.                                                        *)

C18_PasswordChangeGuarded ==
    last.op = "change_user_password" =>
        IF last.actor.id # last.target /\ last.actor.role # ADMIN
        THEN last.outcome = "PermissionError" /\ users = ScopeStore
        ELSE IF last.before # None
                /\ verify_password(last.current_password, last.before[1].password_hash)
        THEN /\ last.outcome = "ok"
             /\ verify_password(last.new_password, users[last.target].password_hash)
             /\ users = [ScopeStore EXCEPT ![last.target] =
                           [@ EXCEPT !.password_hash = users[last.target].password_hash,
                                     !.updated_at = now]]
        ELSE last.outcome = "False" /\ users = ScopeStore

C18_Witness ==
    /\ last.op = "change_user_password"
    /\ last.actor.role = MANAGER
    /\ last.before # None
    /\ last.before[1].role = ACCOUNTANT
    /\ last.before[1].district_id = last.actor.district_id
    /\ verify_password(last.current_password, last.before[1].password_hash)
    /\ last.outcome = "PermissionError"
    /\ users[last.target].password_hash = last.before[1].password_hash

----------------------------------------------------------------------------
(* C19: GET /users/{id} answers NotFound for an id that is not stored;     *)
(* for a stored target it returns the record when the actor is the target, *)
(* or an Admin, or a Manager of the target's district, and Forbidden       *)
(* otherwise; an Accountant gets only their own record.                    *)

C19_ReadAuthorization ==
    last.op = "get_user" =>
        IF last.before = None THEN last.outcome = "404" /\ last.result = None
        ELSE IF \/ last.actor.id = last.target
                \/ last.actor.role = ADMIN
                \/ (/\ last.actor.role = MANAGER
                    /\ last.actor.district_id = last.before[1].district_id)
        THEN /\ last.outcome = "ok"
             /\ last.result # None
             /\ last.result[1].id = last.target
             /\ \A field \in DOMAIN last.result[1] :
                   last.result[1][field] = last.before[1][field]
        ELSE last.outcome = "403" /\ last.result = None

\* a Manager reads another Manager of the same district
C19_Witness ==
    /\ last.op = "get_user"
    /\ last.actor.role = MANAGER
    /\ last.target # last.actor.id
    /\ last.before # None
    /\ last.before[1].role = MANAGER
    /\ last.before[1].district_id = last.actor.district_id
    /\ last.outcome = "ok"
    /\ last.result[1].id = last.target

----------------------------------------------------------------------------
(* C20: a list call without an is_active filter returns no inactive user   *)
(* and its total counts no inactive user.                                  *)

C20_InactiveExcludedByDefault ==
    (last.op = "get_users_list" /\ last.requested.is_active = None) =>
        /\ \A k \in 1..Len(last.users) : last.users[k].is_active
        /\ last.total = Cardinality({i \in DOMAIN users :
                                        /\ MatchesFilters(users[i], last.effective)
                                        /\ users[i].is_active})

----------------------------------------------------------------------------
(* The life of an account: created, deactivated, deleted, reactivated *)

NextLifecycle ==
    \/ Tick(0..MaxClock)
    \/ CreateUser
    \/ DeleteUser
    \/ ActivateUserRoute
    \/ DeactivateUserRoute

SpecLifecycle == InitDir /\ [][NextLifecycle]_vars

(* C21: no step removes a stored user or changes an id; a successful       *)
(* delete_user changes nothing but the target's is_active, which becomes   *)
(* false, and its updated_at; a successful activate_user changes nothing   *)
(* but the target's is_active, which becomes true, and its updated_at, so  *)
(* the id, email, role and placement are those of before.                  *)

C21_SoftDeleteReversible ==
    [][/\ DOMAIN users \subseteq DOMAIN users'
       /\ \A i \in DOMAIN users : users'[i].id = users[i].id
       /\ (last'.op = "delete_user" /\ last'.outcome = "ok") =>
             users' = [users EXCEPT ![last'.target] =
                          [@ EXCEPT !.is_active = FALSE,
                                    !.updated_at = users'[last'.target].updated_at]]
       /\ (last'.op = "activate_user" /\ last'.outcome = "ok") =>
             users' = [users EXCEPT ![last'.target] =
                          [@ EXCEPT !.is_active = TRUE,
                                    !.updated_at = users'[last'.target].updated_at]]]_vars

\* a deleted account has just been reactivated
C21_Witness ==
    /\ last.op = "activate_user"
    /\ last.outcome = "ok"
    /\ ~last.before[1].is_active
    /\ users[last.target].is_active
    /\ users[last.target].email = last.before[1].email
    /\ users[last.target].role = last.before[1].role
    /\ users[last.target].district_id = last.before[1].district_id
    /\ Len(users) = MaxUsers

----------------------------------------------------------------------------
(* C22: once reset_password has succeeded with a reset token, the next     *)
(* reset_password call with the same token fails and changes no record.    *)

C22_ResetTokenSingleUse ==
    [][(/\ last.op = "reset_password"
        /\ last.result = "ok"
        /\ last'.op = "reset_password"
        /\ last'.issued = last.issued
        /\ last'.alteration = "none"
        /\ last' # last)
          => (last'.result = "fail" /\ users' = users)]_vars

----------------------------------------------------------------------------
(* The routing layer: the HTTP status a handler answers with, given how    *)
(* the service call ended.  An HTTPException raised inside the handler's   *)
(* try block is an Exception: where no  except HTTPException  clause       *)
(* precedes it, the final  except Exception  clause catches it and         *)
(* answers 500.                                                            *)

\* PUT /users/{user_id}, DELETE /users/{user_id}, POST /users/{user_id}/deactivate
update_user_status(outcome) ==
    IF outcome = "ok" THEN "200"
    ELSE IF outcome = "ValueError" THEN "400"
    ELSE IF outcome = "PermissionError" THEN "403"
    ELSE "500"

\* POST /users/{user_id}/activate
activate_user_status(outcome) ==
    IF outcome = "ok" THEN "200"
    ELSE IF outcome = "PermissionError" THEN "403"
    ELSE "500"

\* POST /auth/login: the 401 raised for a None result is caught as well
login_status(outcome) ==
    IF outcome = "ok" THEN "200" ELSE "500"

\* POST /users/{user_id}/change-password
change_user_password_status(outcome) ==
    IF outcome = "ok" THEN "200"
    ELSE IF outcome = "PermissionError" THEN "403"
    ELSE "500"

(* C23: update, delete, activate and deactivate on an id that is not       *)
(* stored answer 404, a login that fails answers 401 and a change-password *)
(* with a wrong current password answers 400.                              *)

C23_TypedFailures ==
    /\ (last.op \in {"update_user", "delete_user", "deactivate_user"} /\ last.before = None)
          => update_user_status(last.outcome) = "404"
    /\ (last.op = "activate_user" /\ last.before = None)
          => activate_user_status(last.outcome) = "404"
    /\ (last.op = "login" /\ last.outcome # "ok")
          => login_status(last.outcome) = "401"
    /\ (last.op = "change_user_password" /\ last.outcome = "False")
          => change_user_password_status(last.outcome) = "400"

----------------------------------------------------------------------------
(* The geography the users table points into: facilities.district_id and   *)
(* districts.province_id.  Facility f lies in district f (wrapping round), *)
(* every district in province 1.                                           *)

facility_district(f) == ((f - 1) % NumDistricts) + 1

district_province(d) == 1

(* C24: in every reachable state each user's facility lies in the user's   *)
(* district and that district in the user's province.                      *)

C24_HierarchyConsistent ==
    \A i \in DOMAIN users :
        /\ facility_district(users[i].facility_id) = users[i].district_id
        /\ district_province(users[i].district_id) = users[i].province_id

----------------------------------------------------------------------------
(* C25: no request whose actor is a Manager or an Accountant makes an      *)
(* Admin of a user who was not one.                                        *)

C25_NoEscalationByNonAdmins ==
    [][\A u \in DOMAIN users :
          (/\ last'.op \in DirectoryOps
           /\ last'.actor.role # ADMIN
           /\ users[u].role # ADMIN)
              => users'[u].role # ADMIN]_vars

----------------------------------------------------------------------------
(* C26: get_current_user on an access token issued at login returns no     *)
(* user or the user whose id is the token's user_id claim.                 *)

C26_TokenBoundToUser ==
    (/\ last.op = "get_current_user"
     /\ last.issued.kind = "access"
     /\ last.result # None)
        => last.result[1].id = last.issued.jwt.claims.user_id[1]

----------------------------------------------------------------------------
(* C27: every record a read route returns to a Manager (the paginated      *)
(* list, get by id, users by district, users by facility) is of the        *)
(* Manager's district.                                                     *)

C27_ManagerReadsOwnDistrict ==
    (last.op # "none" /\ last.actor.role = MANAGER) =>
        /\ last.op = "get_users_list" =>
              \A k \in 1..Len(last.users) : last.users[k].district_id = last.actor.district_id
        /\ (last.op = "get_user" /\ last.result # None) =>
              last.result[1].district_id = last.actor.district_id
        /\ last.op \in {"get_users_by_district", "get_users_by_facility"} =>
              \A u \in last.users : u.district_id = last.actor.district_id

----------------------------------------------------------------------------
(* A deactivation that runs concurrently with other requests: its checks   *)
(* (lines 216-228 of user_service.py) in one step, its write (lines        *)
(* 230-232) in a later one.                                                *)

\* the checks of deactivate_user before its write: "ok" or how the call ends
deactivate_user_check(store, user_id, current_user) ==
    IF get_by_id(store, user_id) = None THEN "not_found"
    ELSE IF store[user_id].id = current_user.id THEN "ValueError"
    ELSE IF ~_can_modify_user(current_user, store[user_id]) THEN "PermissionError"
    ELSE "ok"

\* POST /users/{user_id}/deactivate up to the permission check
BeginDeactivateUser ==
    \E a \in Actors, user_id \in RequestIds :
        LET outcome == deactivate_user_check(users, user_id, users[a])
        IN /\ require_manager_or_admin(users[a])
           /\ BagCardinality(requests) < MaxInflight
           /\ IF outcome # "ok"
              THEN /\ last' = Call("deactivate_user", a, user_id, outcome)
                   /\ UNCHANGED <<users, now, tokens, requests, clients>>
              ELSE /\ requests' = requests (+) SetToBag({[kind |-> "deactivate", actor |-> a,
                                                          user_id |-> user_id]})
                   /\ last' = Call("deactivate_user_check", a, user_id, "ok")
                   /\ UNCHANGED <<users, now, tokens, clients>>

\* POST /users/{user_id}/deactivate from the write on; the record of the
\* call shows the actor and the target as stored when the write commits
FinishDeactivateUser ==
    \E req \in BagToSet(requests) :
        /\ req.kind = "deactivate"
        /\ users' = repo_update(users, now, req.user_id, [NoUpdate EXCEPT !.is_active = Some(FALSE)])
        /\ requests' = requests (-) SetToBag({req})
        /\ last' = Call("deactivate_user", req.actor, req.user_id, "ok")
        /\ UNCHANGED <<now, tokens, clients>>

NextStale ==
    \/ UpdateUser(RolePayloads)
    \/ BeginDeactivateUser
    \/ FinishDeactivateUser

SpecStale == InitDir /\ [][NextStale]_vars

(* C28: a deactivation is committed only while the actor, as stored at the *)
(* commit, may modify the target, as stored at the commit.                 *)

C28_AuthorizedAtCommit ==
    (last.op = "deactivate_user" /\ last.outcome = "ok") =>
        CanModifyTable(last.actor.role, last.actor.district_id,
                       last.before[1].role, last.before[1].district_id,
                       last.actor.id = last.target)

----------------------------------------------------------------------------
(* C29: the store always holds a user who is an Admin and is active.  *)

C29_ActiveAdminRemains ==
    \E i \in DOMAIN users : users[i].is_active /\ users[i].role = ADMIN

----------------------------------------------------------------------------
(* Rate limiting: the middleware in front of every route.  The requests   *)
(* carry no credentials, so the route behind the middleware answers       *)
(* without touching the store.                                            *)

\* how many admitted requests the model follows
MaxCalls == 6

\* the prefix under which main.py mounts the routers
Mounted(path) == <<"api", "v1">> \o path

\* the paths that skip the limiter
SkipPaths == {<<"health">>, <<"docs">>, <<"redoc">>, <<"openapi.json">>}

\* the requested paths: the login route as mounted, the same path without
\* the mount prefix (no route), and the health check
RequestPaths == {Mounted(<<"auth", "login">>), <<"auth", "login">>, <<"health">>}

\* instants of the clock: one second, two seconds, a minute
LimiterTimes == {TicksPerSecond, 2 * TicksPerSecond, 60 * TicksPerSecond}

InitLimiter ==
    /\ users = SeedUsers
    /\ now = 0
    /\ tokens = {}
    /\ requests = NoRequests
    /\ clients = NoClients
    /\ last = [op |-> "none", admitted |-> <<>>]

\* rate_limit_middleware on one request; last.admitted is the log of the
\* requests of non-whitelisted clients that is_allowed admitted
RateLimitMiddleware ==
    \E client_ip \in ClientIps, path \in RequestPaths :
        /\ Len(last.admitted) < MaxCalls
        /\ IF path \in SkipPaths
           THEN /\ last' = [op |-> "rate_limit_middleware", ip |-> client_ip, path |-> path,
                            status |-> "skipped",
                            error |-> None, admitted |-> last.admitted]
                /\ UNCHANGED <<users, now, tokens, requests, clients>>
           ELSE LET r == is_allowed(clients, now, client_ip, path)
                IN /\ clients' = IF r.allowed
                                 THEN get_rate_limit_headers(r.clients, now, client_ip, path)
                                 ELSE r.clients
                   /\ last' = [op |-> "rate_limit_middleware", ip |-> client_ip, path |-> path,
                               status |-> IF r.allowed THEN "passed" ELSE "429",
                               error |-> r.error,
                               admitted |-> IF r.allowed /\ ~_is_whitelisted(client_ip)
                                            THEN Append(last.admitted,
                                                        [ip |-> client_ip, path |-> path,
                                                         time |-> now])
                                            ELSE last.admitted]
                   /\ UNCHANGED <<users, now, tokens, requests>>

NextLimiter ==
    \/ Tick(LimiterTimes)
    \/ RateLimitMiddleware

SpecLimiter == InitLimiter /\ [][NextLimiter]_vars

(* C30: for each of the auth endpoints with a configured limit, as mounted *)
(* by the application, no window of the endpoint's period holds more       *)
(* admitted requests of one non-whitelisted client to that endpoint than   *)
(* the endpoint's call limit.                                              *)

C30_PerEndpointLimit ==
    \A key \in {<<"auth", "login">>, <<"auth", "forgot-password">>, <<"auth", "reset-password">>} :
        \A i \in 1..Len(last.admitted) :
            last.admitted[i].path = Mounted(key) =>
                Cardinality({j \in 1..i :
                    /\ last.admitted[j].path = last.admitted[i].path
                    /\ last.admitted[j].ip = last.admitted[i].ip
                    /\ last.admitted[i].time - last.admitted[j].time
                           < endpoint_limits[key].period * TicksPerSecond})
                    <= endpoint_limits[key].calls

====
